---- MODULE Spec2Model ----
(***************************************************************************)
(* Provisioning & lifecycle manager of melanin_click: the install          *)
(* orchestrator of InstallPage (one Tk main thread), the install() worker  *)
(* threads it starts, the shared cancel flag and the progress queue.       *)
(* Two builds are modelled: src/melaninclick.py ("cross") and              *)
(* src/melaninclick_macos.py ("macos"); the build is fixed per behaviour.  *)
(***************************************************************************)
EXTENDS Integers, Sequences, FiniteSets, TLC

\* ------------------------------------------------------------------ bounds
MaxRuns   == 2    \* install threads started in one behaviour
MaxChunks == 2    \* blocks of one download

\* ------------------------------------------------------- program constants
FullThreshold == 600   \* GB
MinThreshold  == 10    \* GB

SW       == {"bitcoin", "whive"}
Variants == {"cross", "macos"}
Runs     == 1..MaxRuns
Modes    == {"mainnet", "pruned"}

\* values check_disk_space() may return (GB), and the failure of the query
QueryFailed == -1

\* hosts: FreeBSD stands for a system and riscv64 for a machine the code does
\* not name
Systems   == {"Linux", "Darwin", "Windows", "FreeBSD"}
Machines  == {"x86_64", "amd64", "i386", "i686", "arm64", "aarch64", "riscv64"}
Platforms == [system : Systems, machine : Machines]
FreeSpace   == {5, 10, 50, 600, 650}

VARIABLES
  variant,        \* which source file is running
  platform,       \* the host: platform.system() and platform.machine().lower()
  cancel_flag,    \* InstallPage.cancel_flag
  message_queue,  \* InstallPage.message_queue (FIFO of progress messages)
  progress,       \* TRUE while the progress bar runs
  cancel_button,  \* state of the Cancel button
  buttons,        \* per software: state of its run / status / miner buttons
  after_queue,    \* callbacks scheduled with after(0, ...) and not yet run
  main_pc,        \* "idle", or "blocked" inside a Queue.get() on an empty queue
  workers,        \* the install() threads that are alive, by order of start
  nruns,          \* threads started so far
  dir,            \* per software: ~/{software}-core exists
  tmp,            \* per software: the downloaded archive exists in that directory
  tree,           \* per software: what has been extracted into that directory
  conf,           \* per mode: ~/.bitcoin/{mode}/bitcoin.conf
  lastOp          \* the handler or thread step executed last: its outcome, the
                  \* lines it inserted into the output widget (shown), the
                  \* messages it put on the queue (put) and, for the last step
                  \* of a thread, the thread as it ended (w)

vars == <<variant, platform, cancel_flag, message_queue, progress, cancel_button,
          buttons, after_queue, main_pc, workers, nruns, dir, tmp, tree, conf,
          lastOp>>

fs  == <<dir, tmp, tree, conf>>

\* ------------------------------------------------------------ bitcoin.conf
\* a file is the sequence of its lines, a line is key=value; no file: no lines
Absent == <<>>

Line(key, value) == [key |-> key, value |-> value]

\* get_architecture with the x86 names taken for arm64
get_architecture_x86_as_arm(machine) ==
  IF machine \in {"x86_64", "amd64", "i386", "i686", "arm64", "aarch64"} THEN "arm64"
  ELSE "unknown"

get_architecture(machine) ==
  IF machine \in {"x86_64", "amd64", "i386", "i686"} THEN "x86_64"
  ELSE IF machine \in {"arm64", "aarch64"} THEN "arm64"
  ELSE "unknown"

\* conf_content with the prune line appended whatever the argument
conf_content_always_prune(v, os_type, arch, prune) ==
     <<Line("daemon", 1), Line("txindex", 1), Line("prune", 550)>>
  \o (IF os_type = "Linux" THEN <<Line("dbcache", 450)>>
      ELSE IF os_type = "Darwin" THEN <<Line("dbcache", 800)>>
      ELSE IF os_type = "Windows" /\ v = "cross" THEN <<Line("dbcache", 1024)>>
      ELSE <<>>)
  \o (IF arch = "arm64" THEN <<Line("par", 4)>> ELSE <<Line("par", 8)>>)

\* conf_content of create_bitcoin_conf, in build v, for os_type and arch
conf_content(v, os_type, arch, prune) ==
     <<Line("daemon", 1), Line("txindex", 1)>>
  \o (IF prune THEN <<Line("prune", 550)>> ELSE <<>>)
  \o (IF os_type = "Linux" THEN <<Line("dbcache", 450)>>
      ELSE IF os_type = "Darwin" THEN <<Line("dbcache", 800)>>
      ELSE IF os_type = "Windows" /\ v = "cross" THEN <<Line("dbcache", 1024)>>
      ELSE <<>>)
  \o (IF arch = "arm64" THEN <<Line("par", 4)>> ELSE <<Line("par", 8)>>)

\* ------------------------------------------------------------ download URLs
BITCOIN_VERSION == "28.2"
WHIVE_VERSION   == "22.2.3"

\* a URL: the release directory it points into, the file name as the tokens
\* its hyphens separate, and the archive extension
Url(base, file, ext) == [base |-> base, file |-> file, ext |-> ext]

BitcoinUrl(file, ext) ==
  Url(<<"https://bitcoincore.org/bin", "bitcoin-core", BITCOIN_VERSION>>,
      <<"bitcoin", BITCOIN_VERSION>> \o file, ext)

WhiveUrl(file, ext) ==
  Url(<<"https://github.com/whiveio/whive_releases/releases/download", WHIVE_VERSION>>,
      file, ext)

\* get_bitcoin_download_url with the Linux file as the default
get_bitcoin_download_url_linux_default(v, p) ==
  LET arch == get_architecture(p.machine) IN
  IF p.system = "Darwin"
    THEN IF arch = "arm64" THEN BitcoinUrl(<<"arm64", "apple", "darwin">>, ".tar.gz")
         ELSE BitcoinUrl(<<"x86_64", "apple", "darwin">>, ".tar.gz")
  ELSE IF p.system = "Windows" /\ v = "cross" THEN BitcoinUrl(<<"win64">>, ".zip")
  ELSE IF arch = "arm64" THEN BitcoinUrl(<<"aarch64", "linux", "gnu">>, ".tar.gz")
  ELSE BitcoinUrl(<<"x86_64", "linux", "gnu">>, ".tar.gz")

\* get_bitcoin_download_url() of build v on host p; melaninclick_macos.py has
\* no branch for Windows
get_bitcoin_download_url(v, p) ==
  LET arch == get_architecture(p.machine) IN
  IF p.system = "Darwin"
    THEN IF arch = "arm64" THEN BitcoinUrl(<<"arm64", "apple", "darwin">>, ".tar.gz")
         ELSE BitcoinUrl(<<"x86_64", "apple", "darwin">>, ".tar.gz")
  ELSE IF p.system = "Linux"
    THEN IF arch = "arm64" THEN BitcoinUrl(<<"aarch64", "linux", "gnu">>, ".tar.gz")
         ELSE BitcoinUrl(<<"x86_64", "linux", "gnu">>, ".tar.gz")
  ELSE IF p.system = "Windows" /\ v = "cross" THEN BitcoinUrl(<<"win64">>, ".zip")
  ELSE BitcoinUrl(<<"x86_64", "apple", "darwin">>, ".tar.gz")

\* get_whive_download_url() of build v on host p: one file for Linux
get_whive_download_url(v, p) ==
  LET arch == get_architecture(p.machine) IN
  IF p.system = "Darwin"
    THEN IF arch = "arm64" THEN WhiveUrl(<<"whive", "ventura", WHIVE_VERSION, "arm64">>, ".tar.gz")
         ELSE WhiveUrl(<<"whive", "ventura", WHIVE_VERSION, "osx64">>, ".tar.gz")
  ELSE IF p.system = "Linux"
    THEN WhiveUrl(<<"whive", WHIVE_VERSION, "x86_64", "linux", "gnu">>, ".tar.gz")
  ELSE IF p.system = "Windows" /\ v = "cross"
    THEN WhiveUrl(<<"whive", WHIVE_VERSION, "win64">>, ".zip")
  ELSE WhiveUrl(<<"whive", "ventura", WHIVE_VERSION, "osx64">>, ".tar.gz")

\* the second argument of the install thread
download_url(s) ==
  IF s = "bitcoin" THEN get_bitcoin_download_url(variant, platform)
  ELSE get_whive_download_url(variant, platform)

NoUrl == Url(<<>>, <<>>, "")

\* ---------------------------------------------------------------- messages
\* (text, tag) pairs of the source; tag None is "info"
Msg(kind, sw, tag) == [kind |-> kind, sw |-> sw, tag |-> tag]

\* --------------------------------------------------------------- the worker
NoWorker ==
  [pc |-> "none", sw |-> "bitcoin", prune |-> FALSE,
   url |-> NoUrl,             \* the download_url argument of the thread
   total |-> 0,               \* totalsize announced by the server, -1 unknown
   chunks |-> 0,              \* blocks read so far
   \* history of the run, read by the properties only
   late_chunks |-> 0,         \* blocks read while cancel_flag was set
   cancel_pending |-> FALSE,  \* Cancel pressed before this run's cancel check
   cancel_in_extract |-> FALSE, \* Cancel pressed while this run was extracting
   stale_flag |-> FALSE,      \* in lastOp of the invocation: cancel_flag was set
   raised |-> "none",         \* the step of this run that raised
   extracted |-> FALSE,       \* this run wrote files into the tree
   wrote |-> {},              \* the bitcoin.conf files this run wrote
   sent |-> <<>>]             \* messages this run put on the queue

\* a child process: the executable, the version directory it was found in,
\* and for a miner the user name <address>.<worker> of its command line
Proc(exe, at, address, worker) ==
  [exe |-> exe, at |-> at, address |-> address, worker |-> worker]

NoProc == Proc("none", "none", <<>>, "")

Op(op, sw, result, free, shown, put, w) ==
  [op |-> op, sw |-> sw, result |-> result, free |-> free, shown |-> shown,
   put |-> put, w |-> w,
   spawn |-> NoProc]          \* the process the step started

OtherOp(op, shown, put) == Op(op, "-", "none", 0, shown, put, NoWorker)

\* the states of section 4.8 a live thread is in
DownloadingPcs == {"spawned", "downloading", "cancelling"}
ExtractingPcs  == {"extracting", "extracted"}
ConfiguringPcs == {"configuring", "writing_mainnet", "configuring_pruned", "writing_pruned"}
LivePcs        == DownloadingPcs \cup ExtractingPcs \cup ConfiguringPcs

Live(r) == workers[r].pc \in LivePcs

\* ------------------------------------------------------------------- Init
\* the page as __init__ leaves it, on any host
Start ==
  /\ variant \in Variants
  /\ cancel_flag = FALSE
  /\ message_queue = <<>>
  /\ progress = FALSE
  /\ cancel_button = "disabled"
  /\ buttons = [s \in SW |-> "disabled"]
  /\ after_queue = <<>>
  /\ main_pc = "idle"
  /\ workers = [r \in Runs |-> NoWorker]
  /\ nruns = 0
  /\ dir = [s \in SW |-> FALSE]
  /\ tmp = [s \in SW |-> FALSE]
  /\ tree = [s \in SW |-> "none"]
  /\ conf = [m \in Modes |-> Absent]
  /\ lastOp = OtherOp("init", <<>>, <<>>)

\* melaninclick.py on Linux / x86_64, melaninclick_macos.py on macOS / arm64
Host(v) == IF v = "cross" THEN [system |-> "Linux", machine |-> "x86_64"]
                          ELSE [system |-> "Darwin", machine |-> "arm64"]

Init == Start /\ platform = Host(variant)

\* ------------------------------------------------------- button handlers
\* enable_bitcoin_buttons reaching for the buttons of whive too
enable_bitcoin_buttons_all(b) == [s \in SW |-> "normal"]

enable_bitcoin_buttons(b) == [b EXCEPT !["bitcoin"] = "normal"]

enable_whive_buttons(b) == [b EXCEPT !["whive"] = "normal"]

enable_buttons(s, b) ==
  IF s = "bitcoin" THEN enable_bitcoin_buttons(b) ELSE enable_whive_buttons(b)

\* an install invocation clears cancel_flag: the blocks read with the flag set
\* are counted anew, and for the runs of the same software s the invocation is
\* a new attempt, so that the requests to cancel the earlier one are history
NewAttempt(s, w) ==
  [w EXCEPT !.cancel_pending = IF w.sw = s THEN FALSE ELSE @,
            !.late_chunks = 0]

\* threading.Thread(target=self.install, args=(software, url, prune)).start()
StartThread(s, prune) ==
  /\ nruns < MaxRuns
  /\ nruns' = nruns + 1
  /\ workers' = [r \in Runs |->
        IF r = nruns + 1
          THEN [NoWorker EXCEPT !.pc = "spawned", !.sw = s, !.prune = prune,
                                !.url = download_url(s)]
          ELSE NewAttempt(s, workers[r])]

NoThread(s) ==
  /\ nruns' = nruns
  /\ workers' = [r \in Runs |-> NewAttempt(s, workers[r])]

\* the handler without its first statement: cancel_flag stays as it is
begin_install_keeps_flag ==
  /\ main_pc = "idle"
  /\ cancel_flag' = cancel_flag
  /\ cancel_button' = "normal"
  /\ UNCHANGED <<variant, platform, message_queue, after_queue, main_pc, fs>>

\* the first three statements of both install handlers: reset the flag,
\* progress.start(), enable Cancel
begin_install ==
  /\ main_pc = "idle"
  /\ cancel_flag' = FALSE
  /\ cancel_button' = "normal"
  /\ UNCHANGED <<variant, platform, message_queue, after_queue, main_pc, fs>>

\* the declined branch without its call of enable_*_buttons
skip_update_no_enable(s) ==
  /\ NoThread(s)
  /\ buttons' = buttons
  /\ progress' = FALSE
  /\ lastOp' = Op("install", s, "Ready", 0,
                  <<Msg("skipping", s, "success")>>, <<>>, NoWorker)

\* the directory exists and askyesno returned False
skip_update(s) ==
  /\ NoThread(s)
  /\ buttons' = enable_buttons(s, buttons)
  /\ progress' = FALSE
  /\ lastOp' = Op("install", s, "Ready", 0,
                  <<Msg("skipping", s, "success")>>, <<>>, NoWorker)

\* check_disk_space() raised: the exception leaves the handler
query_raised(s) ==
  /\ NoThread(s)
  /\ progress' = TRUE
  /\ buttons' = buttons
  /\ lastOp' = Op("install", s, "raised", QueryFailed,
                  <<Msg("checking", s, "info")>>, <<>>, NoWorker)

\* enough space: report it and start the thread
start_install(s, prune, detected, free) ==
  /\ StartThread(s, prune)
  /\ progress' = TRUE
  /\ buttons' = buttons
  /\ lastOp' = Op("install", s, "Downloading", free,
                  <<Msg("checking", s, "info"), Msg(detected, s, "info")>>,
                  <<>>, [NoWorker EXCEPT !.stale_flag = cancel_flag])

\* the else branch without its call of progress.stop()
insufficient_space_bar_running(s, free) ==
  /\ NoThread(s)
  /\ progress' = TRUE
  /\ buttons' = buttons
  /\ lastOp' = Op("install", s, "Idle", free,
                  <<Msg("checking", s, "info"), Msg("insufficient", s, "error")>>,
                  <<>>, NoWorker)

\* the else branch: not enough space
insufficient_space(s, free) ==
  /\ NoThread(s)
  /\ progress' = FALSE
  /\ buttons' = buttons
  /\ lastOp' = Op("install", s, "Idle", free,
                  <<Msg("checking", s, "info"), Msg("insufficient", s, "error")>>,
                  <<>>, NoWorker)

\* the chain with the lower threshold compared in the wrong unit
classify_bitcoin_low_threshold(free) ==
  IF free > FullThreshold THEN "Full"
  ELSE IF free * 1024 > MinThreshold THEN "Pruned"
  ELSE "Insufficient"

\* the chain with the upper bound of the pruned range taken as exclusive, so
\* that exactly 600 GB falls through to the else branch
classify_bitcoin_gap(free) ==
  IF free > FullThreshold THEN "Full"
  ELSE IF free > MinThreshold /\ free < FullThreshold THEN "Pruned"
  ELSE "Insufficient"

\* the strategy chosen from the free space, as the if / elif / else chains do
classify_bitcoin(free) ==
  IF free > FullThreshold THEN "Full"
  ELSE IF free > MinThreshold THEN "Pruned"
  ELSE "Insufficient"

\* the whive threshold taken as inclusive
classify_whive_inclusive(free) ==
  IF free >= MinThreshold THEN "Standard" ELSE "Insufficient"

classify_whive(free) ==
  IF free > MinThreshold THEN "Standard" ELSE "Insufficient"

\* answer is the reply to askyesno, free the value of check_disk_space()
check_storage_and_install_bitcoin(answer, free) ==
  /\ begin_install
  /\ IF dir["bitcoin"] /\ ~answer THEN skip_update("bitcoin")
     ELSE IF free = QueryFailed THEN query_raised("bitcoin")
     ELSE IF classify_bitcoin(free) = "Full"
       THEN start_install("bitcoin", FALSE, "detected_full", free)
     ELSE IF classify_bitcoin(free) = "Pruned"
       THEN start_install("bitcoin", TRUE, "detected_pruned", free)
     ELSE insufficient_space("bitcoin", free)

check_storage_and_install_whive(answer, free) ==
  /\ begin_install
  /\ IF dir["whive"] /\ ~answer THEN skip_update("whive")
     ELSE IF free = QueryFailed THEN query_raised("whive")
     ELSE IF classify_whive(free) = "Standard"
       THEN start_install("whive", FALSE, "detected", free)
     ELSE insufficient_space("whive", free)

\* cancel_install: the command of the Cancel button
cancel_install ==
  /\ main_pc = "idle"
  /\ cancel_button = "normal"
  /\ cancel_flag' = TRUE
  /\ workers' = [r \in Runs |->
        IF workers[r].pc \in {"spawned", "downloading"}
          THEN [workers[r] EXCEPT !.cancel_pending = TRUE]
        ELSE IF workers[r].pc \in ExtractingPcs
          THEN [workers[r] EXCEPT !.cancel_in_extract = TRUE]
        ELSE workers[r]]
  /\ lastOp' = OtherOp("cancel", <<Msg("cancelling", "-", "error")>>, <<>>)
  /\ UNCHANGED <<variant, platform, message_queue, progress, cancel_button, buttons,
                 after_queue, main_pc, nruns, fs>>

\* a callback scheduled with after(0, ...) runs on the main thread
run_after ==
  /\ main_pc = "idle"
  /\ after_queue # <<>>
  /\ after_queue' = Tail(after_queue)
  /\ buttons' = IF Head(after_queue) = "enable_bitcoin_buttons"
                  THEN enable_bitcoin_buttons(buttons)
                ELSE IF Head(after_queue) = "enable_whive_buttons"
                  THEN enable_whive_buttons(buttons)
                ELSE buttons
  /\ progress' = IF Head(after_queue) = "progress_stop" THEN FALSE ELSE progress
  /\ cancel_button' = IF Head(after_queue) = "cancel_disable" THEN "disabled"
                      ELSE cancel_button
  /\ lastOp' = OtherOp("after", <<>>, <<>>)
  /\ UNCHANGED <<variant, platform, cancel_flag, message_queue, main_pc, workers, nruns, fs>>

\* ------------------------------------------------------------ process_queue
\* melaninclick_macos.py: each pass of the loop calls get() twice, once in the
\* isinstance test (the item is dropped) and once for the value; the second
\* get() blocks when the queue has run empty
RECURSIVE MacDrain(_)
MacDrain(q) ==
  IF q = <<>> THEN [out |-> <<>>, blocked |-> FALSE]
  ELSE IF Len(q) = 1 THEN [out |-> <<>>, blocked |-> TRUE]
  ELSE LET rest == MacDrain(Tail(Tail(q)))
       IN [out |-> <<q[2]>> \o rest.out, blocked |-> rest.blocked]

\* melaninclick.py: one get() per pass, every item is shown
CrossDrain(q) == [out |-> q, blocked |-> FALSE]

process_queue ==
  /\ main_pc = "idle"
  /\ LET d == IF variant = "cross" THEN CrossDrain(message_queue)
                                   ELSE MacDrain(message_queue)
     IN /\ main_pc' = IF d.blocked THEN "blocked" ELSE "idle"
        /\ lastOp' = OtherOp("process_queue", d.out, <<>>)
  /\ message_queue' = <<>>
  /\ UNCHANGED <<variant, platform, cancel_flag, progress, cancel_button, buttons,
                 after_queue, workers, nruns, fs>>

\* the blocked get() returns once a thread has put an item; the loop goes on
process_queue_resume ==
  /\ main_pc = "blocked"
  /\ message_queue # <<>>
  /\ LET d == MacDrain(Tail(message_queue))
     IN /\ main_pc' = IF d.blocked THEN "blocked" ELSE "idle"
        /\ lastOp' = OtherOp("process_queue", <<Head(message_queue)>> \o d.out, <<>>)
  /\ message_queue' = <<>>
  /\ UNCHANGED <<variant, platform, cancel_flag, progress, cancel_button, buttons,
                 after_queue, workers, nruns, fs>>

\* ------------------------------------------------------ install (the thread)
Retire(r) == [workers EXCEPT ![r] = NoWorker]

\* the finally clause: melaninclick.py touches the widgets from the thread,
\* melaninclick_macos.py schedules the two calls on the main thread
Finally(aq) ==
  IF variant = "cross"
    THEN /\ progress' = FALSE
         /\ cancel_button' = "disabled"
         /\ after_queue' = aq
    ELSE /\ after_queue' = aq \o <<"progress_stop", "cancel_disable">>
         /\ UNCHANGED <<progress, cancel_button>>

\* except Exception: put the failure message, then finally; the thread ends
Raise(r, step) ==
  LET m == Msg("failed", workers[r].sw, "error") IN
  /\ message_queue' = Append(message_queue, m)
  /\ workers' = Retire(r)
  /\ Finally(after_queue)
  /\ lastOp' = Op("thread", workers[r].sw, "Failed", 0, <<>>, <<m>>,
                  [workers[r] EXCEPT !.pc = "Failed", !.raised = step,
                                     !.sent = Append(@, m)])

\* reporthook(blocknum, blocksize, totalsize)
reporthook(q, total) ==
  IF total > 0 THEN Append(q, Msg("progress", "-", "info")) ELSE q

\* update_output("Downloading ...") and os.makedirs(install_path), both before
\* the try statement, so that an exception there ends the thread; then the
\* start of urlretrieve: open the URL, create the file, first reporthook call
install_begin(r, made, opened, total) ==
  LET s == workers[r].sw
      line == <<Msg("downloading", s, "info")>> IN
  /\ workers[r].pc = "spawned"
  /\ IF ~made
       THEN /\ workers' = Retire(r)
            /\ lastOp' = Op("thread", s, "Crashed", 0, line, <<>>,
                            [workers[r] EXCEPT !.pc = "Crashed", !.raised = "makedirs"])
            /\ UNCHANGED <<message_queue, progress, cancel_button, after_queue, dir, tmp>>
     ELSE IF ~opened
       THEN /\ dir' = [dir EXCEPT ![s] = TRUE]
            /\ tmp' = tmp
            /\ message_queue' = Append(message_queue, Msg("failed", s, "error"))
            /\ workers' = Retire(r)
            /\ Finally(after_queue)
            /\ lastOp' = Op("thread", s, "Failed", 0, line, <<Msg("failed", s, "error")>>,
                            [workers[r] EXCEPT !.pc = "Failed", !.raised = "download",
                                  !.sent = <<Msg("failed", s, "error")>>])
     ELSE   /\ dir' = [dir EXCEPT ![s] = TRUE]
            /\ tmp' = [tmp EXCEPT ![s] = TRUE]
            /\ message_queue' = reporthook(message_queue, total)
            /\ workers' = [workers EXCEPT ![r].pc = "downloading", ![r].total = total,
                                          ![r].sent = reporthook(@, total)]
            /\ lastOp' = OtherOp("thread", line, reporthook(<<>>, total))
            /\ UNCHANGED <<progress, cancel_button, after_queue>>
  /\ UNCHANGED <<variant, platform, cancel_flag, buttons, main_pc, nruns, tree, conf>>

\* urlretrieve: one block read and written, reporthook called; nothing here
\* reads cancel_flag
urlretrieve_block(r, ok) ==
  LET total == workers[r].total IN
  /\ workers[r].pc = "downloading"
  /\ workers[r].chunks < MaxChunks
  /\ IF ok
       THEN /\ message_queue' = reporthook(message_queue, total)
            /\ workers' = [workers EXCEPT ![r].chunks = @ + 1,
                  ![r].late_chunks = IF cancel_flag THEN @ + 1 ELSE @,
                  ![r].sent = reporthook(@, total)]
            /\ lastOp' = OtherOp("thread", <<>>, reporthook(<<>>, total))
            /\ UNCHANGED <<progress, cancel_button, after_queue>>
       ELSE Raise(r, "download")
  /\ UNCHANGED <<variant, platform, cancel_flag, buttons, main_pc, nruns, fs>>

\* urlretrieve returns (end of data, the announced size was received), then
\* if self.cancel_flag: os.remove(downloaded_file) ...
\* else: put "Extracting ..."
install_cancel_check(r) ==
  LET s == workers[r].sw
      m == Msg("extracting", s, "info") IN
  /\ workers[r].pc = "downloading"
  /\ workers[r].total < 0 \/ workers[r].chunks = workers[r].total
  /\ IF cancel_flag
       THEN IF tmp[s]
              THEN /\ tmp' = [tmp EXCEPT ![s] = FALSE]
                   /\ workers' = [workers EXCEPT ![r].pc = "cancelling"]
                   /\ lastOp' = OtherOp("thread", <<>>, <<>>)
                   /\ UNCHANGED <<message_queue, progress, cancel_button, after_queue>>
              ELSE /\ tmp' = tmp
                   /\ Raise(r, "cancel_remove")
       ELSE /\ tmp' = tmp
            /\ message_queue' = Append(message_queue, m)
            /\ workers' = [workers EXCEPT ![r].pc = "extracting", ![r].sent = Append(@, m)]
            /\ lastOp' = OtherOp("thread", <<>>, <<m>>)
            /\ UNCHANGED <<progress, cancel_button, after_queue>>
  /\ UNCHANGED <<variant, platform, cancel_flag, buttons, main_pc, nruns, dir, tree, conf>>

\* ... put "Installation cancelled.", stop the bar, return (through finally)
install_cancelled(r) ==
  LET m == Msg("cancelled", "-", "error") IN
  /\ workers[r].pc = "cancelling"
  /\ message_queue' = Append(message_queue, m)
  /\ workers' = Retire(r)
  /\ Finally(after_queue)
  /\ lastOp' = Op("thread", workers[r].sw, "Cancelled", 0, <<>>, <<m>>,
                  [workers[r] EXCEPT !.pc = "Cancelled", !.sent = Append(@, m)])
  /\ UNCHANGED <<variant, platform, cancel_flag, buttons, main_pc, nruns, fs>>

\* zipfile / tarfile extractall; result is what the archive turns out to be
ExtractResults == {"ok", "corrupt", "truncated"}

\* what a complete archive holds. "ok" is the release: a bin directory with the
\* GUI and the control executable in the directory the programs expect
\* (bitcoin-28.2, whive); "ok_renamed" the same in a directory of another name
\* (bitcoin-28.1, the name melaninclick_macos.py expects; whive-22.2.3);
\* "ok_nogui" an archive with no bin directory that holds the GUI executable
Layouts == {"ok", "ok_renamed", "ok_nogui"}

Unpacked(result) ==
  CASE result = "ok" -> "full"
    [] result = "ok_renamed" -> "renamed"
    [] result = "ok_nogui" -> "nogui"
    [] OTHER -> "partial"

\* the version directories with a complete bin directory in a tree
VersionDirs(t) ==
  CASE t \in {"full"} -> {"release"}
    [] t = "renamed" -> {"other"}
    [] t = "both" -> {"release", "other"}
    [] OTHER -> {}

\* extractall adds files to the tree, it removes none
Join(t, u) ==
  LET d == VersionDirs(t) \cup VersionDirs(u) IN
  IF d = {"release", "other"} THEN "both"
  ELSE IF d = {"release"} THEN "full"
  ELSE IF d = {"other"} THEN "renamed"
  ELSE IF "partial" \in {t, u} THEN "partial"
  ELSE IF "nogui" \in {t, u} THEN "nogui"
  ELSE "none"

extractall(r, result) ==
  LET s == workers[r].sw IN
  /\ workers[r].pc = "extracting"
  /\ IF ~tmp[s]
       THEN /\ tree' = tree
            /\ Raise(r, "extract_open")
     ELSE IF result \in Layouts
       THEN /\ tree' = [tree EXCEPT ![s] = Join(@, Unpacked(result))]
            /\ workers' = [workers EXCEPT ![r].pc = "extracted", ![r].extracted = TRUE]
            /\ lastOp' = OtherOp("thread", <<>>, <<>>)
            /\ UNCHANGED <<message_queue, progress, cancel_button, after_queue>>
     ELSE IF result = "corrupt"
       THEN /\ tree' = tree
            /\ Raise(r, "extract")
     ELSE   /\ tree' = [tree EXCEPT ![s] = Join(@, Unpacked(result))]
            /\ Raise(r, "extract")
  /\ UNCHANGED <<variant, platform, cancel_flag, buttons, main_pc, nruns, dir, tmp, conf>>

\* the extraction with a check of cancel_flag in front of it
install_extract_checks_flag(r, result) ==
  LET m == Msg("cancelled", "-", "error") IN
  IF workers[r].pc = "extracting" /\ cancel_flag
    THEN /\ message_queue' = Append(message_queue, m)
         /\ workers' = Retire(r)
         /\ Finally(after_queue)
         /\ lastOp' = Op("thread", workers[r].sw, "Cancelled", 0, <<>>, <<m>>,
                         [workers[r] EXCEPT !.pc = "Cancelled", !.sent = Append(@, m)])
         /\ UNCHANGED <<variant, platform, cancel_flag, buttons, main_pc, nruns, fs>>
    ELSE extractall(r, result)

\* the extraction step of install: nothing reads cancel_flag here
install_extract(r, result) == extractall(r, result)

\* os.remove(downloaded_file); find_bin_directory and the chmod loop
\* (ensure_binary_permissions swallows its own errors, os.walk and os.listdir
\* may raise); the success message; the enabling of the buttons
install_success(r, ok) ==
  LET s == workers[r].sw
      m == Msg("success", s, "success")
      enable == IF s = "bitcoin" THEN "enable_bitcoin_buttons"
                                 ELSE "enable_whive_buttons" IN
  /\ workers[r].pc = "extracted"
  /\ IF ~tmp[s]
       THEN /\ tmp' = tmp
            /\ buttons' = buttons
            /\ Raise(r, "remove")
     ELSE IF ~ok
       THEN /\ tmp' = [tmp EXCEPT ![s] = FALSE]
            /\ buttons' = buttons
            /\ Raise(r, "permissions")
     ELSE   /\ tmp' = [tmp EXCEPT ![s] = FALSE]
            /\ message_queue' = Append(message_queue, m)
            /\ workers' = [workers EXCEPT ![r].pc = "configuring", ![r].sent = Append(@, m)]
            /\ IF variant = "cross"
                 THEN /\ after_queue' = Append(after_queue, enable)
                      /\ buttons' = buttons
                 ELSE /\ after_queue' = after_queue
                      /\ buttons' = enable_buttons(s, buttons)
            /\ lastOp' = OtherOp("thread", <<>>, <<m>>)
            /\ UNCHANGED <<progress, cancel_button>>
  /\ UNCHANGED <<variant, platform, cancel_flag, main_pc, nruns, dir, tree, conf>>

\* create_bitcoin_conf(conf_path, prune): the file it writes
create_bitcoin_conf(prune) ==
  conf_content(variant, platform.system, get_architecture(platform.machine), prune)

\* the file a thread in the configuration part of install is dealing with
ConfMode(pc) == IF pc \in {"configuring", "writing_mainnet"} THEN "mainnet" ELSE "pruned"

\* install dropping its prune argument
ConfPrune_dropped(r, m) == FALSE

\* the prune argument install passes for the file of mode m: melaninclick.py
\* passes its own prune argument, melaninclick_macos.py a constant per file
ConfPrune(r, m) == IF variant = "cross" THEN workers[r].prune ELSE m = "pruned"

\* the end of the try block: finally, and the thread ends after a success
install_done(r, shown, w) ==
  /\ workers' = Retire(r)
  /\ Finally(after_queue)
  /\ lastOp' = Op("thread", w.sw, "Ready", 0, shown, <<>>, [w EXCEPT !.pc = "Ready"])
  /\ message_queue' = message_queue

\* after the file of mode m: melaninclick_macos.py goes on to the pruned file
install_conf_next(r, m, shown, w) ==
  IF variant = "macos" /\ m = "mainnet"
    THEN /\ workers' = [workers EXCEPT ![r] = [w EXCEPT !.pc = "configuring_pruned"]]
         /\ lastOp' = OtherOp("thread", shown, <<>>)
         /\ UNCHANGED <<message_queue, progress, cancel_button, after_queue>>
    ELSE install_done(r, shown, w)

\* if software == 'bitcoin': os.path.exists(conf_path), os.makedirs; nothing
\* for whive
install_configure(r, ok) ==
  LET s == workers[r].sw
      m == ConfMode(workers[r].pc) IN
  /\ workers[r].pc \in {"configuring", "configuring_pruned"}
  /\ conf' = conf
  /\ IF s = "whive"
       THEN ok /\ install_done(r, <<>>, workers[r])
     ELSE IF ~ok
       THEN Raise(r, "configure")
     ELSE IF conf[m] # Absent
       THEN install_conf_next(r, m, <<>>, workers[r])
     ELSE /\ workers' = [workers EXCEPT ![r].pc =
                            IF m = "mainnet" THEN "writing_mainnet" ELSE "writing_pruned"]
          /\ lastOp' = OtherOp("thread", <<>>, <<>>)
          /\ UNCHANGED <<message_queue, progress, cancel_button, after_queue>>
  /\ UNCHANGED <<variant, platform, cancel_flag, buttons, main_pc, nruns, dir, tmp, tree>>

\* self.create_bitcoin_conf(conf_path, prune) called by install: open(conf_path,
\* 'w') truncates whatever is there, then update_output from the thread
install_write_conf(r, ok) ==
  LET m == ConfMode(workers[r].pc) IN
  /\ workers[r].pc \in {"writing_mainnet", "writing_pruned"}
  /\ IF ok
       THEN /\ conf' = [conf EXCEPT ![m] = create_bitcoin_conf(ConfPrune(r, m))]
            /\ install_conf_next(r, m, <<Msg("conf_created", m, "info")>>,
                                 [workers[r] EXCEPT !.wrote = @ \cup {m}])
       ELSE /\ conf' = conf
            /\ Raise(r, "configure")
  /\ UNCHANGED <<variant, platform, cancel_flag, buttons, main_pc, nruns, dir, tmp, tree>>

\* ------------------------------------------------------- running the node
\* what the environment answers to the calls of a handler: present tells
\* whether a partly extracted tree holds the executable asked for (and a tree
\* without GUI the control executable), readable whether os.listdir of a bin
\* directory works, first which of two version directories os.walk meets
\* first, started whether the process can be started
Env == [present : BOOLEAN, readable : BOOLEAN, first : BOOLEAN, started : BOOLEAN]

\* the answers that can make a difference for the tree of s as it is: nothing
\* is listed in an empty tree, a complete tree holds what it holds, and the
\* order of the walk matters with two version directories only
EnvFor(s) ==
  {e \in Env : /\ tree[s] = "none" => e.readable
               /\ tree[s] \notin {"partial", "nogui"} => e.present
               /\ tree[s] # "both" => e.first}

\* os.path.exists of the GUI executable in <s>-core/<d>/bin
Holds(s, d, e) ==
  \/ d \in VersionDirs(tree[s])
  \/ d = "release" /\ tree[s] = "partial" /\ e.present

\* os.path.exists of the control executable <s>-cli in <s>-core/<d>/bin
HoldsCli(s, d, e) ==
  \/ Holds(s, d, e)
  \/ d = "release" /\ tree[s] = "nogui" /\ e.present

\* find_bin_directory(base, s): the walk from base ("root" is <s>-core, else a
\* version directory) to the first bin directory with a file named after the
\* GUI; "None" if there is none, "raise" if a bin directory cannot be listed
find_bin_directory(s, base, e) ==
  LET found  == {d \in {"release", "other"} : base \in {"root", d} /\ Holds(s, d, e)}
      listed == found # {} \/ (tree[s] \in {"partial", "nogui"} /\ base \in {"root", "release"})
  IN IF listed /\ ~e.readable THEN "raise"
     ELSE IF found = {} THEN "None"
     ELSE IF found = {"release", "other"} THEN (IF e.first THEN "other" ELSE "release")
     ELSE CHOOSE d \in found : TRUE

\* the version directory of the path a handler falls back on: melaninclick.py
\* builds it from BITCOIN_VERSION, melaninclick_macos.py spells bitcoin-28.1
LiteralDir(s) ==
  IF variant = "macos" /\ s = "bitcoin" THEN "other" ELSE "release"

\* what a handler did: the line it showed and the process it started
Ran(kind, s, tag, spawn) == [msg |-> Msg(kind, s, tag), spawn |-> spawn]

\* run_software without the two os.path.exists tests: Popen on the path given
run_software_unchecked(s, path, e) ==
  IF e.started THEN Ran("started", s, "success", Proc(s \o "-qt", path, <<>>, ""))
  ELSE Ran("start_failed", s, "error", NoProc)

\* run_software(software_path): if the path does not exist the bin directory
\* is looked for from two levels above it; still nothing: the not-found error;
\* else Popen. All of it inside try / except Exception
run_software(s, path, e) ==
  LET inner    == IF Holds(s, path, e) THEN path ELSE find_bin_directory(s, path, e)
      resolved == IF inner \in {"release", "other"} /\ Holds(s, inner, e) THEN inner ELSE "None"
  IN IF inner = "raise" THEN Ran("start_failed", s, "error", NoProc)
     ELSE IF resolved = "None" THEN Ran("not_found", s, "error", NoProc)
     ELSE IF e.started THEN Ran("started", s, "success", Proc(s \o "-qt", resolved, <<>>, ""))
     ELSE Ran("start_failed", s, "error", NoProc)

\* the path run_mainnet, run_pruned_node, run_whive and check_node_status
\* start from: melaninclick.py asks find_bin_directory, outside any try, and
\* falls back on the literal path; melaninclick_macos.py has the literal only
ExpectedDir(s, e, literal) ==
  IF variant = "macos" THEN literal
  ELSE LET d == find_bin_directory(s, "root", e) IN
       IF d = "None" THEN literal ELSE d

\* the version directory of the literal path of check_node_status:
\* melaninclick.py builds <software>-<version> for whive too, which is not the
\* directory run_whive falls back on
CliLiteralDir(s) ==
  IF variant = "cross" /\ s = "whive" THEN "other" ELSE LiteralDir(s)

\* a step of the main thread that only shows lines and starts processes
Handled(op, s, result, shown, spawn) ==
  lastOp' = [Op(op, s, result, 0, shown, <<>>, NoWorker) EXCEPT !.spawn = spawn]

\* run_mainnet (m = "mainnet", prune False) and run_pruned_node (m = "pruned",
\* prune True): the file is generated if it does not exist; ok tells whether
\* it can be written, an exception leaves the handler
run_node(m, ok, e) ==
  LET create == conf[m] = Absent
      made == <<Msg("conf_created", m, "info")>>
      path == ExpectedDir("bitcoin", e, LiteralDir("bitcoin"))
      ran == run_software("bitcoin", path, e) IN
  /\ main_pc = "idle"
  /\ buttons["bitcoin"] = "normal"
  /\ IF path = "raise" \/ (create /\ ~ok)
       THEN /\ conf' = conf
            /\ Handled("run", "bitcoin", "raised", <<>>, NoProc)
       ELSE /\ conf' = IF create THEN [conf EXCEPT ![m] = create_bitcoin_conf(m = "pruned")]
                       ELSE conf
            /\ Handled("run", "bitcoin", ran.msg.kind,
                       (IF create THEN made ELSE <<>>) \o <<ran.msg>>, ran.spawn)
  /\ UNCHANGED <<variant, platform, cancel_flag, message_queue, progress,
                 cancel_button, buttons, after_queue, main_pc, workers, nruns,
                 dir, tmp, tree>>

run_mainnet(ok, e) == run_node("mainnet", ok, e)

run_pruned_node(ok, e) == run_node("pruned", ok, e)

NoEffect ==
  UNCHANGED <<variant, platform, cancel_flag, message_queue, progress,
              cancel_button, buttons, after_queue, main_pc, workers, nruns, fs>>

\* run_whive: with no GUI at the path, on macOS the offer to fetch the disk
\* image (urlretrieve on the main thread and Popen(["open", ...]), neither in
\* a try; dmg_ok tells whether both work); otherwise run_software
run_whive(answer, dmg_ok, e) ==
  LET path == ExpectedDir("whive", e, LiteralDir("whive"))
      ran == run_software("whive", path, e)
      offer == IF variant = "macos" THEN answer
               ELSE platform.system = "Darwin" /\ answer IN
  /\ main_pc = "idle"
  /\ buttons["whive"] = "normal"
  /\ IF path = "raise" THEN Handled("run", "whive", "raised", <<>>, NoProc)
     ELSE IF ~Holds("whive", path, e)
       THEN IF offer
              THEN IF dmg_ok
                     THEN Handled("run", "whive", "dmg", <<>>, Proc("open", "dmg", <<>>, ""))
                     ELSE Handled("run", "whive", "raised", <<>>, NoProc)
            ELSE IF variant = "macos"
              THEN Handled("run", "whive", "silent", <<>>, NoProc)
            ELSE Handled("run", "whive", "gui_missing",
                         <<Msg("gui_missing", "whive", "error")>>, NoProc)
     ELSE Handled("run", "whive", ran.msg.kind, <<ran.msg>>, ran.spawn)
  /\ NoEffect

\* how the control executable ends
Exits == {"zero", "nonzero"}

\* check_node_status(software): check_output of <s>-cli getblockchaininfo;
\* CalledProcessError gives the error line with the output, any other
\* exception the "Failed to check" line with its cause: no such file
\* (status_missing) or the file cannot be executed (status_failed)
check_node_status(s, exit, e) ==
  LET path == ExpectedDir(s, e, CliLiteralDir(s))
      cli  == Proc(s \o "-cli", path, <<>>, "") IN
  /\ main_pc = "idle"
  /\ buttons[s] = "normal"
  /\ IF path = "raise" THEN Handled("status", s, "raised", <<>>, NoProc)
     ELSE IF ~HoldsCli(s, path, e)
       THEN Handled("status", s, "status_missing", <<Msg("status_missing", s, "error")>>, NoProc)
     ELSE IF ~e.started
       THEN Handled("status", s, "status_failed", <<Msg("status_failed", s, "error")>>, NoProc)
     ELSE IF exit = "nonzero"
       THEN Handled("status", s, "status_error", <<Msg("status_error", s, "error")>>, cli)
     ELSE Handled("status", s, "status", <<Msg("status", s, "success")>>, cli)
  /\ NoEffect

\* ----------------------------------------------------------------- miners
\* the character classes of the pattern in validate_btc_address
Base58 ==
  {"a", "b", "c", "d", "e", "f", "g", "h", "i", "j", "k", "m", "n", "o", "p",
   "q", "r", "s", "t", "u", "v", "w", "x", "y", "z", "A", "B", "C", "D", "E",
   "F", "G", "H", "J", "K", "L", "M", "N", "P", "Q", "R", "S", "T", "U", "V",
   "W", "X", "Y", "Z", "1", "2", "3", "4", "5", "6", "7", "8", "9"}

Bech ==
  {"a", "b", "c", "d", "e", "f", "g", "h", "i", "j", "k", "l", "m", "n", "o",
   "p", "q", "r", "s", "t", "u", "v", "w", "x", "y", "z", "A", "B", "C", "D",
   "E", "F", "G", "H", "J", "K", "L", "M", "N", "P", "Q", "R", "S", "T", "U",
   "V", "W", "X", "Y", "Z", "0", "1", "2", "3", "4", "5", "6", "7", "8", "9"}

\* re.match(pattern, address) for
\* ^[13][a-km-zA-HJ-NP-Z1-9]{25,34}$|^bc1[a-zA-HJ-NP-Z0-9]{38,58}$
\* ($ also matches before a newline that ends the string)
validate_btc_address(address) ==
  LET n    == Len(address)
      body == IF n > 0 /\ address[n] = "\n" THEN SubSeq(address, 1, n - 1) ELSE address
      k    == Len(body) IN
  \/ /\ k - 1 \in 25..34
     /\ body[1] \in {"1", "3"}
     /\ \A i \in 2..k : body[i] \in Base58
  \/ /\ k - 3 \in 38..58
     /\ SubSeq(body, 1, 3) = <<"b", "c", "1">>
     /\ \A i \in 4..k : body[i] \in Bech

\* what the user types into the address dialog; <<>> is Cancel or nothing
Legacy ==
  <<"1", "A", "1", "z", "P", "1", "e", "P", "5", "Q", "G", "e", "f", "i",
    "2", "D", "M", "P", "T", "f", "T", "L", "5", "S", "L", "m", "v", "7",
    "D", "i", "v", "f", "N", "a">>

Segwit ==
  <<"b", "c", "1", "q", "a", "r", "0", "s", "r", "r", "r", "7", "x", "f",
    "k", "v", "y", "5", "l", "6", "4", "3", "l", "y", "d", "n", "w", "9",
    "r", "e", "5", "9", "g", "t", "z", "z", "w", "f", "5", "m", "d", "q">>

NotAnAddress ==
  <<"n", "o", "t", "a", "n", "a", "d", "d", "r", "e", "s", "s">>

\* a legacy address with the letter O, which Base58 does not have
Misspelt ==
  <<"1", "A", "1", "z", "P", "1", "e", "P", "5", "Q", "G", "e", "f", "i",
    "2", "D", "M", "P", "T", "f", "T", "L", "5", "S", "L", "m", "v", "7",
    "D", "i", "v", "f", "N", "O">>

Addresses == {<<>>, Legacy, Segwit, NotAnAddress, Misspelt}

\* what the user types into the machine-name dialog
WorkerIds == {"", "rig1"}

\* the answers to the dialogs and calls of a miner handler, each answer that
\* is never asked for left at its first value
MinerInputs ==
  [proceed : BOOLEAN, address : Addresses, machine_name : WorkerIds,
   minerd : BOOLEAN, terminal : BOOLEAN, started : BOOLEAN]

Unasked(i, fields) ==
  /\ "address" \in fields => i.address = <<>>
  /\ "machine_name" \in fields => i.machine_name = ""
  /\ "minerd" \in fields => ~i.minerd
  /\ "terminal" \in fields => ~i.terminal /\ ~i.started

BitcoinMinerInputs ==
  {i \in MinerInputs :
     /\ ~i.proceed => Unasked(i, {"address", "machine_name", "minerd", "terminal"})
     /\ (i.address = <<>> \/ ~validate_btc_address(i.address)) =>
           Unasked(i, {"machine_name", "minerd", "terminal"})
     /\ i.machine_name = "" => Unasked(i, {"minerd", "terminal"})
     /\ ~i.minerd => Unasked(i, {"terminal"})}

WhiveMinerInputs ==
  {i \in MinerInputs :
     /\ ~i.proceed => Unasked(i, {"address", "minerd", "terminal"})
     /\ i.address = <<>> => Unasked(i, {"minerd", "terminal"})
     /\ ~i.minerd => Unasked(i, {"terminal"})
     /\ i.machine_name = ""}

\* run_terminal_command(cmd, software): a terminal that runs cmd; terminal
\* tells whether `which` finds one of the four emulators on Linux, started
\* whether Popen works
run_terminal_command(s, address, worker, terminal, started) ==
  IF platform.system = "Linux" /\ ~terminal
    THEN Ran("no_terminal", s, "error", NoProc)
  ELSE IF platform.system \notin {"Darwin", "Linux"}
          /\ ~(platform.system = "Windows" /\ variant = "cross")
    THEN Ran("unsupported", s, "error", NoProc)
  ELSE IF started THEN Ran("mining", s, "success", Proc("minerd", "terminal", address, worker))
  ELSE Ran("miner_failed", s, "error", NoProc)

\* run_bitcoin_miner: disclaimer, address, machine name, minerd, terminal
run_bitcoin_miner(proceed, address, machine_name, minerd, terminal, started) ==
  LET ran == run_terminal_command("bitcoin", address, machine_name, terminal, started) IN
  /\ main_pc = "idle"
  /\ buttons["bitcoin"] = "normal"
  /\ IF ~proceed THEN Handled("mine", "bitcoin", "declined", <<>>, NoProc)
     ELSE IF address = <<>> \/ ~validate_btc_address(address)
       THEN Handled("mine", "bitcoin", "rejected",
                    <<Msg("invalid_address", "bitcoin", "error")>>, NoProc)
     ELSE IF machine_name = ""
       THEN Handled("mine", "bitcoin", "rejected",
                    <<Msg("no_machine_name", "bitcoin", "error")>>, NoProc)
     ELSE IF ~minerd
       THEN Handled("mine", "bitcoin", "no_minerd",
                    <<Msg("no_minerd", "bitcoin", "error")>>, NoProc)
     ELSE Handled("mine", "bitcoin", ran.msg.kind, <<ran.msg>>, ran.spawn)
  /\ NoEffect

\* run_whive_miner: disclaimer, address (only tested for emptiness), minerd,
\* terminal; the worker is always w1
run_whive_miner(proceed, address, minerd, terminal, started) ==
  LET ran == run_terminal_command("whive", address, "w1", terminal, started) IN
  /\ main_pc = "idle"
  /\ buttons["whive"] = "normal"
  /\ IF ~proceed THEN Handled("mine", "whive", "declined", <<>>, NoProc)
     ELSE IF address = <<>>
       THEN Handled("mine", "whive", "rejected",
                    <<Msg("no_address", "whive", "error")>>, NoProc)
     ELSE IF ~minerd
       THEN Handled("mine", "whive", "no_minerd",
                    <<Msg("no_minerd", "whive", "error")>>, NoProc)
     ELSE Handled("mine", "whive", ran.msg.kind, <<ran.msg>>, ran.spawn)
  /\ NoEffect

\* --------------------------------------------------------------------- Next
Inputs == FreeSpace \cup {QueryFailed}

\* the user waits for the end of an install before starting the next one
OneAtATime == nruns' > nruns => \A r \in Runs : ~Live(r)

\* the main loop is quick: what is queued for it (messages, after callbacks)
\* is handled before the next user event or thread step, unless the main
\* thread is stuck in get()
Pending == message_queue # <<>> \/ after_queue # <<>>
Quick   == main_pc = "blocked" \/ ~Pending

\* every handler and every thread step, with every outcome of the calls they
\* make; install threads do not overlap
Next ==
  \/ \E answer \in BOOLEAN, free \in Inputs :
        Quick /\ check_storage_and_install_bitcoin(answer, free) /\ OneAtATime
  \/ \E answer \in BOOLEAN, free \in Inputs :
        Quick /\ check_storage_and_install_whive(answer, free) /\ OneAtATime
  \/ Quick /\ cancel_install
  \/ run_after
  \/ message_queue # <<>> /\ process_queue
  \/ process_queue_resume
  \/ \E r \in Runs, made \in BOOLEAN, opened \in BOOLEAN, total \in {-1, MaxChunks} :
        Quick /\ install_begin(r, made, opened, total)
  \/ \E r \in Runs, ok \in BOOLEAN : Quick /\ urlretrieve_block(r, ok)
  \/ \E r \in Runs : Quick /\ install_cancel_check(r)
  \/ \E r \in Runs : Quick /\ install_cancelled(r)
  \/ \E r \in Runs, result \in ExtractResults : Quick /\ install_extract(r, result)
  \/ \E r \in Runs, ok \in BOOLEAN : Quick /\ install_success(r, ok)
  \/ \E r \in Runs, ok \in BOOLEAN : Quick /\ install_configure(r, ok)
  \/ \E r \in Runs, ok \in BOOLEAN : Quick /\ install_write_conf(r, ok)

Spec == Init /\ [][Next]_vars

\* melaninclick.py with overlapping install threads: the Install buttons stay
\* enabled while a thread runs; here no call raises
InitConc == Init /\ variant = "cross"

NextConc ==
  \/ \E answer \in BOOLEAN, free \in {5, 50} :
        Quick /\ check_storage_and_install_bitcoin(answer, free)
  \/ \E answer \in BOOLEAN, free \in {5, 50} :
        Quick /\ check_storage_and_install_whive(answer, free)
  \/ Quick /\ cancel_install
  \/ run_after
  \/ message_queue # <<>> /\ process_queue
  \/ \E r \in Runs : Quick /\ install_begin(r, TRUE, TRUE, -1)
  \/ \E r \in Runs : Quick /\ urlretrieve_block(r, TRUE)
  \/ \E r \in Runs : Quick /\ install_cancel_check(r)
  \/ \E r \in Runs : Quick /\ install_cancelled(r)
  \/ \E r \in Runs : Quick /\ install_extract(r, "ok")
  \/ \E r \in Runs : Quick /\ install_success(r, TRUE)
  \/ \E r \in Runs : Quick /\ install_configure(r, TRUE)
  \/ \E r \in Runs : Quick /\ install_write_conf(r, TRUE)

SpecConc == InitConc /\ [][NextConc]_vars

\* the bitcoin node on every host: installs whose calls all succeed, one after
\* another, and the two handlers that run the node
InitNode == Start /\ platform \in Platforms

NextNode ==
  \/ \E answer \in BOOLEAN, free \in FreeSpace :
        Quick /\ check_storage_and_install_bitcoin(answer, free) /\ OneAtATime
  \/ run_after
  \/ message_queue # <<>> /\ process_queue
  \/ process_queue_resume
  \/ \E r \in Runs : Quick /\ install_begin(r, TRUE, TRUE, -1)
  \/ \E r \in Runs : Quick /\ urlretrieve_block(r, TRUE)
  \/ \E r \in Runs : Quick /\ install_cancel_check(r)
  \/ \E r \in Runs : Quick /\ install_extract(r, "ok")
  \/ \E r \in Runs : Quick /\ install_success(r, TRUE)
  \/ \E r \in Runs : Quick /\ install_configure(r, TRUE)
  \/ \E r \in Runs : Quick /\ install_write_conf(r, TRUE)
  \/ \E ok \in BOOLEAN, e \in EnvFor("bitcoin") : Quick /\ run_mainnet(ok, e)
  \/ \E ok \in BOOLEAN, e \in EnvFor("bitcoin") : Quick /\ run_pruned_node(ok, e)

SpecNode == InitNode /\ [][NextNode]_vars

\* the two Install buttons on every host, with a server that cannot be reached:
\* urlopen raises and the thread ends
NextUrl ==
  \/ \E answer \in BOOLEAN, free \in FreeSpace :
        Quick /\ check_storage_and_install_bitcoin(answer, free) /\ OneAtATime
  \/ \E answer \in BOOLEAN, free \in FreeSpace :
        Quick /\ check_storage_and_install_whive(answer, free) /\ OneAtATime
  \/ run_after
  \/ message_queue # <<>> /\ process_queue
  \/ \E r \in Runs, made \in BOOLEAN : Quick /\ install_begin(r, made, FALSE, -1)

SpecUrl == InitNode /\ [][NextUrl]_vars

\* the operations on what is installed, on one host per OS: installs whose
\* calls all succeed, with every content of the archive, and the buttons
\* pressed while no install is running
HostsOps == {p \in Platforms : p.machine = "x86_64"}

InitOps == Start /\ platform \in HostsOps

Settled == Quick /\ \A r \in Runs : ~Live(r)

NextOps ==
  \/ \E answer \in BOOLEAN :
        Quick /\ check_storage_and_install_bitcoin(answer, 650) /\ OneAtATime
  \/ \E answer \in BOOLEAN :
        Quick /\ check_storage_and_install_whive(answer, 50) /\ OneAtATime
  \/ run_after
  \/ message_queue # <<>> /\ process_queue
  \/ process_queue_resume
  \/ \E r \in Runs : Quick /\ install_begin(r, TRUE, TRUE, -1)
  \/ \E r \in Runs : Quick /\ urlretrieve_block(r, TRUE)
  \/ \E r \in Runs : Quick /\ install_cancel_check(r)
  \/ \E r \in Runs, result \in Layouts : Quick /\ install_extract(r, result)
  \/ \E r \in Runs : Quick /\ install_success(r, TRUE)
  \/ \E r \in Runs : Quick /\ install_configure(r, TRUE)
  \/ \E r \in Runs : Quick /\ install_write_conf(r, TRUE)
  \/ \E ok \in BOOLEAN, e \in EnvFor("bitcoin") : Settled /\ run_mainnet(ok, e)
  \/ \E ok \in BOOLEAN, e \in EnvFor("bitcoin") : Settled /\ run_pruned_node(ok, e)
  \/ \E answer \in BOOLEAN, dmg_ok \in BOOLEAN, e \in EnvFor("whive") :
        Settled /\ run_whive(answer, dmg_ok, e)
  \/ \E s \in SW, exit \in Exits : \E e \in EnvFor(s) :
        Settled /\ check_node_status(s, exit, e)
  \/ \E i \in BitcoinMinerInputs :
        Settled /\ run_bitcoin_miner(i.proceed, i.address, i.machine_name, i.minerd,
                                     i.terminal, i.started)
  \/ \E i \in WhiveMinerInputs :
        Settled /\ run_whive_miner(i.proceed, i.address, i.minerd, i.terminal, i.started)

SpecOps == InitOps /\ [][NextOps]_vars

\* ================================================================== claims
Ended == lastOp.op = "thread" /\ lastOp.result \in {"Ready", "Failed", "Cancelled", "Crashed"}

HasMsg(q, kind, sw, tag) == \E i \in 1..Len(q) : q[i] = Msg(kind, sw, tag)

SamePcs == \A r \in Runs : workers'[r].pc = workers[r].pc

\* C1: for each software at most one install thread is alive at any time
C1_AtMostOneLive ==
  \A r1, r2 \in Runs :
    (Live(r1) /\ Live(r2) /\ workers[r1].sw = workers[r2].sw) => r1 = r2

\* C2: an install invocation for one software does not change the outcome of
\* the other software's run: a run whose software was not invoked again and
\* that has a cancel request pending is cancelled at its check, it never goes
\* on to extract
C2_OtherInstallKeepsOutcome ==
  \A r \in Runs : workers[r].cancel_pending => workers[r].pc \in DownloadingPcs

\* C3: the thread checks the flag after each block, so that with the flag set
\* at most the block being read is still received
C3_NoBlockAfterCancelBoundary ==
  \A r \in Runs : workers[r].late_chunks <= 1

C5_CancelledLeavesNothing ==
  (Ended /\ lastOp.result = "Cancelled") =>
     /\ ~tmp[lastOp.sw]
     /\ ~lastOp.w.extracted
     /\ ~HasMsg(lastOp.w.sent, "success", lastOp.sw, "success")

\* C6: a declined update writes nothing to the file system, starts no thread,
\* enables the buttons of the software and stops the bar
C6_DeclinedUpdate ==
  [][(lastOp'.op = "install" /\ lastOp'.result = "Ready") =>
        /\ dir[lastOp'.sw]
        /\ fs' = fs
        /\ nruns' = nruns /\ SamePcs
        /\ message_queue' = message_queue
        /\ buttons'[lastOp'.sw] = "normal"
        /\ progress' = FALSE]_vars

C6_Witness ==
  lastOp.op = "install" /\ lastOp.result = "Ready" /\ buttons[lastOp.sw] = "normal"

classify(s, free) == IF s = "bitcoin" THEN classify_bitcoin(free) ELSE classify_whive(free)

Measured == lastOp.op = "install" /\ lastOp.result \in {"Downloading", "Idle"}

\* C7: Insufficient space: an error line, no thread, no write to the file
\* system, the bar stopped, the buttons of the software as they were
C7_InsufficientSpace ==
  [][(Measured' /\ classify(lastOp'.sw, lastOp'.free) = "Insufficient") =>
        /\ lastOp'.result = "Idle"
        /\ HasMsg(lastOp'.shown, "insufficient", lastOp'.sw, "error")
        /\ fs' = fs
        /\ nruns' = nruns /\ SamePcs
        /\ buttons' = buttons
        /\ progress' = FALSE]_vars

C7_Witness ==
  Measured /\ classify(lastOp.sw, lastOp.free) = "Insufficient" /\ ~progress

\* C8 as stated: with 5 GB free the Insufficient error is the only line
C8_OnlyTheErrorLine ==
  (lastOp.op = "install" /\ lastOp.free = 5) =>
     lastOp.shown = <<Msg("insufficient", lastOp.sw, "error")>>

\* C8 as amended: with 5 GB free no thread is started and the invocation shows
\* two lines, the info line "Checking storage" and then the Insufficient error
C8_CheckingThenError ==
  [][(lastOp'.op = "install" /\ lastOp'.free = 5) =>
        /\ lastOp'.result = "Idle"
        /\ nruns' = nruns /\ SamePcs
        /\ lastOp'.put = <<>>
        /\ lastOp'.shown = <<Msg("checking", lastOp'.sw, "info"),
                             Msg("insufficient", lastOp'.sw, "error")>>]_vars

C8_Witness ==
  lastOp.op = "install" /\ lastOp.free = 5 /\ lastOp.result = "Idle"

\* C9: a step of the thread that raises is reported with an error message
\* naming the software, and the run ends Failed
C9_RaiseIsReported ==
  (Ended /\ lastOp.w.raised # "none") =>
     /\ lastOp.result = "Failed"
     /\ HasMsg(lastOp.put, "failed", lastOp.sw, "error")

\* C10: when the extraction fails on the archive the run ends Failed with an
\* error message and the downloaded archive is gone
C10_ArchiveErrorCleansUp ==
  (Ended /\ lastOp.w.raised = "extract") =>
     /\ lastOp.result = "Failed"
     /\ HasMsg(lastOp.put, "failed", lastOp.sw, "error")
     /\ ~tmp[lastOp.sw]

NoneLive == \A r \in Runs : ~Live(r)

\* C11: after a run of a software has ended Failed or Cancelled (its directory
\* exists without a complete tree, no thread is alive) the install handler
\* can be invoked again: the main thread is there to run it
C11_InstallAgainAfterFailure ==
  \A s \in SW : (dir[s] /\ tree[s] # "full" /\ NoneLive) => main_pc = "idle"

\* C12: every run ends with one of the reported outcomes Ready, Failed or
\* Cancelled, and every invocation of an install handler returns with a
\* thread started, Ready or Idle
C12_EveryRunEndsReported ==
  /\ Ended => lastOp.result \in {"Ready", "Failed", "Cancelled"}
  /\ lastOp.op = "install" => lastOp.result \in {"Downloading", "Ready", "Idle"}

EnableOf(s) == IF s = "bitcoin" THEN "enable_bitcoin_buttons" ELSE "enable_whive_buttons"

Scheduled(q, s) == \E i \in 1..Len(q) : q[i] = EnableOf(s)

\* the step is the success step of a thread installing s
SucceededStep(s) ==
  \E r \in Runs : /\ workers[r].sw = s
                  /\ workers[r].pc = "extracted"
                  /\ workers'[r].pc = "configuring"

\* C13: a run of S that ends Ready has enabled the buttons of S (itself, or
\* by a callback that is scheduled), and the buttons of a software change
\* only with a success of an install of that software, with the callback such
\* a success scheduled, or with a declined update of that software
C13_SuccessEnablesOwnButtons ==
  [][/\ (Ended' /\ lastOp'.result = "Ready") =>
          (buttons'[lastOp'.sw] = "normal" \/ Scheduled(after_queue', lastOp'.sw))
     /\ \A s \in SW :
          /\ buttons'[s] # buttons[s] =>
               \/ SucceededStep(s)
               \/ lastOp'.op = "after" /\ Head(after_queue) = EnableOf(s)
               \/ lastOp'.op = "install" /\ lastOp'.sw = s /\ lastOp'.result = "Ready"
          /\ (Scheduled(after_queue', s) /\ ~Scheduled(after_queue, s)) => SucceededStep(s)]_vars

C13_Witness ==
  /\ Ended /\ lastOp.result = "Ready" /\ lastOp.sw = "bitcoin"
  /\ buttons["bitcoin"] = "normal" /\ buttons["whive"] = "disabled"

\* C14: after a successful bitcoin install both bitcoin.conf files exist, the
\* mainnet one and the pruned one; a whive install writes none
C14_BothConfsAfterInstall ==
  (Ended /\ lastOp.result = "Ready") =>
     IF lastOp.sw = "bitcoin"
       THEN conf["mainnet"] # Absent /\ conf["pruned"] # Absent
       ELSE lastOp.w.wrote = {}

\* C15: no step of an install or of a run of the node changes the content of
\* a bitcoin.conf that exists
C15_ExistingConfUnchanged ==
  [][\A m \in Modes : conf[m] # Absent => conf'[m] = conf[m]]_vars

HasLine(c, key, value) == \E i \in 1..Len(c) : c[i] = Line(key, value)

HasKey(c, key) == \E i \in 1..Len(c) : c[i].key = key

\* the prune argument of the call that writes the file of mode m in this step
PruneArgument(m) ==
  IF lastOp'.op = "run" THEN m = "pruned"
  ELSE \E r \in Runs : /\ workers[r].pc \in {"writing_mainnet", "writing_pruned"}
                       /\ workers'[r].pc # workers[r].pc
                       /\ ConfPrune(r, m)

\* C16: on every host a file generated with prune=True holds the line
\* prune=550, and a file generated with prune=False holds no prune line
C16_PruneLineIffPruned ==
  [][\A m \in Modes : (conf[m] = Absent /\ conf'[m] # Absent) =>
        IF PruneArgument(m) THEN HasLine(conf'[m], "prune", 550)
                            ELSE ~HasKey(conf'[m], "prune")]_vars

C16_Witness ==
  /\ platform = [system |-> "FreeBSD", machine |-> "riscv64"]
  /\ HasLine(conf["pruned"], "prune", 550)
  /\ conf["mainnet"] # Absent /\ ~HasKey(conf["mainnet"], "prune")

\* the dbcache value the source gives for the host
Dbcache(system) == IF system = "Linux" THEN 450 ELSE IF system = "Darwin" THEN 800 ELSE 1024

\* C17: on every host, also an unknown one, a generated file is daemon=1,
\* txindex=1, prune=550 if pruned, one dbcache line with the value of the
\* host, one par line with 4 for arm64 and 8 otherwise, and nothing else
C17_ExactLines ==
  \A m \in Modes : conf[m] # Absent =>
     LET c == conf[m]
         n == IF HasKey(c, "prune") THEN 5 ELSE 4 IN
     /\ Len(c) = n
     /\ c[1] = Line("daemon", 1) /\ c[2] = Line("txindex", 1)
     /\ HasKey(c, "prune") => c[3] = Line("prune", 550)
     /\ c[n - 1].key = "dbcache"
     /\ platform.system \in {"Linux", "Darwin", "Windows"} =>
           c[n - 1].value = Dbcache(platform.system)
     /\ c[n] = Line("par", IF platform.machine \in {"arm64", "aarch64"} THEN 4 ELSE 8)

\* the thread the last install invocation started
Spawned == workers[nruns]

StartedWith(prune) ==
  /\ lastOp.result = "Downloading"
  /\ nruns > 0 /\ Spawned.pc = "spawned" /\ Spawned.sw = lastOp.sw
  /\ Spawned.prune = prune

\* C18: on Linux / x86_64 a bitcoin install with 650 GB free starts a thread
\* for a full node, and the mainnet file that run writes is daemon=1,
\* txindex=1, dbcache=450, par=8, with no prune line
C18_ScenarioLinuxFull ==
  platform = [system |-> "Linux", machine |-> "x86_64"] =>
    /\ (lastOp.op = "install" /\ lastOp.sw = "bitcoin" /\ lastOp.free = 650) =>
          StartedWith(FALSE)
    /\ (Ended /\ lastOp.result = "Ready" /\ lastOp.sw = "bitcoin"
          /\ ~lastOp.w.prune /\ "mainnet" \in lastOp.w.wrote) =>
          conf["mainnet"] = <<Line("daemon", 1), Line("txindex", 1),
                              Line("dbcache", 450), Line("par", 8)>>

C18_Witness ==
  /\ platform = [system |-> "Linux", machine |-> "x86_64"]
  /\ Ended /\ lastOp.result = "Ready" /\ lastOp.sw = "bitcoin"
  /\ ~lastOp.w.prune /\ "mainnet" \in lastOp.w.wrote
  /\ ~HasKey(conf["mainnet"], "prune")

\* the files an install writes when no bitcoin.conf exists
InstallWrites == IF variant = "cross" THEN {"mainnet"} ELSE Modes

\* C19: on macOS / arm64 a bitcoin install with 50 GB free starts a thread for
\* a pruned node, and a file that run writes is daemon=1, txindex=1,
\* prune=550, dbcache=800, par=4
C19_ScenarioMacPruned ==
  platform = [system |-> "Darwin", machine |-> "arm64"] =>
    /\ (lastOp.op = "install" /\ lastOp.sw = "bitcoin" /\ lastOp.free = 50) =>
          StartedWith(TRUE)
    /\ (Ended /\ lastOp.result = "Ready" /\ lastOp.sw = "bitcoin"
          /\ lastOp.w.prune /\ lastOp.w.wrote = InstallWrites) =>
          \E m \in lastOp.w.wrote :
             conf[m] = <<Line("daemon", 1), Line("txindex", 1), Line("prune", 550),
                         Line("dbcache", 800), Line("par", 4)>>

C19_Witness ==
  /\ platform = [system |-> "Darwin", machine |-> "arm64"]
  /\ Ended /\ lastOp.result = "Ready" /\ lastOp.sw = "bitcoin"
  /\ lastOp.w.prune /\ lastOp.w.wrote = InstallWrites
  /\ \E m \in Modes : HasLine(conf[m], "prune", 550)

Rank(c) == CASE c = "Insufficient" -> 0
             [] c \in {"Pruned", "Standard"} -> 1
             [] c = "Full" -> 2

\* the strategy an install invocation acted on
Outcome ==
  IF lastOp.result = "Idle" THEN "Insufficient"
  ELSE IF lastOp.sw = "whive" THEN "Standard"
  ELSE IF Spawned.prune THEN "Pruned" ELSE "Full"

\* C21: the strategy is monotonic in the free space: what an invocation does
\* with a GB free is never higher than the strategy for any b >= a and never
\* lower than the strategy for any b <= a
C21_Monotonic ==
  Measured =>
    \A b \in FreeSpace :
      /\ lastOp.free <= b => Rank(Outcome) <= Rank(classify(lastOp.sw, b))
      /\ b <= lastOp.free => Rank(classify(lastOp.sw, b)) <= Rank(Outcome)

C21_Witness ==
  Measured /\ lastOp.sw = "bitcoin" /\ lastOp.free = 600 /\ Outcome = "Pruned"

\* C22: bitcoin is refused only with strictly less than 10 GB free: with
\* exactly 10 GB, and with exactly 600 GB, a thread for a pruned node starts
C22_TenIsPruned ==
  (Measured /\ lastOp.sw = "bitcoin") =>
    /\ lastOp.result = "Idle" => lastOp.free < 10
    /\ lastOp.free \in {10, 600} => StartedWith(TRUE)

\* C23: an install invocation whose free-space query fails shows the
\* Insufficient error, starts no thread, stops the bar and is back at idle
C23_QueryFailureIsInsufficient ==
  (lastOp.op = "install" /\ lastOp.free = QueryFailed) =>
    /\ lastOp.result = "Idle"
    /\ HasMsg(lastOp.shown, "insufficient", lastOp.sw, "error")
    /\ ~progress
    /\ \A r \in Runs : workers[r].pc # "spawned"

\* the platform tags of section 3: the supported pairs of OS and architecture
Supported ==
  \/ platform.system \in {"Darwin", "Linux"}
       /\ get_architecture(platform.machine) \in {"x86_64", "arm64"}
  \/ platform.system = "Windows" /\ get_architecture(platform.machine) = "x86_64"

\* every way a release file name spells an OS or an architecture
OsTokens(os_type) ==
  CASE os_type = "Darwin" -> {"darwin", "apple", "ventura", "osx64", "osx", "macos"}
    [] os_type = "Linux" -> {"linux"}
    [] os_type = "Windows" -> {"win64", "win", "windows"}

ArchTokens(arch) ==
  CASE arch = "x86_64" -> {"x86_64", "osx64", "win64", "amd64", "x64"}
    [] arch = "arm64" -> {"arm64", "aarch64"}

Tokens(url) == {url.file[i] : i \in 1..Len(url.file)}

\* the install invocation that started a thread
Started == lastOp.op = "install" /\ lastOp.result = "Downloading" /\ nruns > 0

\* C24: on a supported platform the URL an install thread is started with
\* names the OS and the architecture of the host, and ends in .zip on Windows
\* and in .tar.gz on any other OS
C24_UrlNamesHost ==
  (Started /\ Supported) =>
    /\ Tokens(Spawned.url) \cap OsTokens(platform.system) # {}
    /\ Tokens(Spawned.url) \cap ArchTokens(get_architecture(platform.machine)) # {}
    /\ Spawned.url.ext = IF platform.system = "Windows" THEN ".zip" ELSE ".tar.gz"

\* the OS is none of macOS, Linux, Windows, or the architecture is unknown
Unknown ==
  \/ platform.system \notin {"Darwin", "Linux", "Windows"}
  \/ get_architecture(platform.machine) = "unknown"

\* the files for macOS / x86_64
MacX86(s) ==
  IF s = "bitcoin"
    THEN Url(<<"https://bitcoincore.org/bin", "bitcoin-core", "28.2">>,
             <<"bitcoin", "28.2", "x86_64", "apple", "darwin">>, ".tar.gz")
    ELSE Url(<<"https://github.com/whiveio/whive_releases/releases/download", "22.2.3">>,
             <<"whive", "ventura", "22.2.3", "osx64">>, ".tar.gz")

\* C25 as stated: on an Unknown platform the URL is the one for macOS / x86_64
C25_UnknownIsMacX86 ==
  (Started /\ Unknown) => Spawned.url = MacX86(lastOp.sw)

\* the OS names build v has a branch for
KnownOs(v) == IF v = "cross" THEN {"Darwin", "Linux", "Windows"} ELSE {"Darwin", "Linux"}

\* C25 amended: a URL is always selected; it is the one for macOS / x86_64
\* when the OS is one the build has no branch for; with a known OS and an
\* unknown architecture it is the URL of that OS for x86_64
C25_UnknownDefaults ==
  Started =>
    /\ Spawned.url # NoUrl /\ Spawned.url.ext \in {".tar.gz", ".zip"}
    /\ platform.system \notin KnownOs(variant) => Spawned.url = MacX86(lastOp.sw)
    /\ (platform.system \in KnownOs(variant)
          /\ get_architecture(platform.machine) = "unknown") =>
         /\ Tokens(Spawned.url) \cap OsTokens(platform.system) # {}
         /\ Tokens(Spawned.url) \cap ArchTokens("x86_64") # {}

C25_Witness ==
  /\ Started /\ lastOp.sw = "bitcoin"
  /\ platform = [system |-> "FreeBSD", machine |-> "riscv64"]
  /\ Spawned.url = MacX86("bitcoin")

\* the one line a status check shows, by the way the control executable ended
StatusLine(op) ==
  CASE op.result = "status" -> Msg("status", op.sw, "success")
    [] op.result = "status_error" -> Msg("status_error", op.sw, "error")
    [] op.result = "status_failed" -> Msg("status_failed", op.sw, "error")
    [] op.result = "status_missing" -> Msg("status_missing", op.sw, "error")
    [] OTHER -> Msg("none", op.sw, "error")

\* C26: a status check returns to its caller with exactly one line shown: the
\* success line after a zero exit, the error line with the output after a
\* non-zero exit, the error line with the cause when the executable is missing
\* or cannot be started; it changes neither what is installed nor the buttons
C26_StatusNeverCrashes ==
  [][lastOp'.op = "status" =>
        /\ lastOp'.result \in {"status", "status_error", "status_failed", "status_missing"}
        /\ lastOp'.shown = <<StatusLine(lastOp')>>
        /\ lastOp'.result \in {"status_failed", "status_missing"} => lastOp'.spawn = NoProc
        /\ UNCHANGED <<buttons, dir, tmp, tree, conf, workers, message_queue>>]_vars

\* the version directories of s whose bin directory may hold the GUI
GuiDirs(s) ==
  VersionDirs(tree[s]) \cup (IF tree[s] = "partial" THEN {"release"} ELSE {})

\* the step went through run_software
Launched == lastOp.op = "run" /\ lastOp.result \in {"started", "not_found", "start_failed"}

\* C27: run_software starts a process only for an executable that exists: a
\* GUI is started only from a bin directory of the tree that holds it, also
\* when it is not where the literal path says; with no GUI in the tree the
\* not-found (or, if the tree cannot be read, the failed-to-start) error is
\* shown and nothing is started; a failed start is shown as an error line
C27_LaunchOnlyWhatExists ==
  Launched =>
    /\ lastOp.result = "started" <=> lastOp.spawn # NoProc
    /\ lastOp.spawn # NoProc =>
         /\ lastOp.spawn.exe = lastOp.sw \o "-qt"
         /\ lastOp.spawn.at \in GuiDirs(lastOp.sw)
    /\ GuiDirs(lastOp.sw) = {} => lastOp.result \in {"not_found", "start_failed"}
    /\ lastOp.result = "not_found" =>
         /\ lastOp.shown[Len(lastOp.shown)] = Msg("not_found", lastOp.sw, "error")
         /\ LiteralDir(lastOp.sw) \notin VersionDirs(tree[lastOp.sw])
    /\ lastOp.result = "start_failed" =>
         lastOp.shown[Len(lastOp.shown)] = Msg("start_failed", lastOp.sw, "error")

\* a GUI started from a directory other than the one of the literal path
C27_Witness ==
  /\ Launched /\ lastOp.result = "started" /\ variant = "cross"
  /\ tree[lastOp.sw] = "renamed" /\ lastOp.spawn.at = "other"

\* the results that say the executable was not found
NotFoundResults == {"not_found", "gui_missing", "dmg", "silent", "status_missing"}

\* C28: with a bin directory that holds the GUI and the control executable in
\* the tree, whatever the name of its version directory, a run and a status
\* check of that software find the executable: what they start is the GUI,
\* respectively the control executable, of that directory
C28_FoundWhateverTheName ==
  (lastOp.op \in {"run", "status"} /\ VersionDirs(tree[lastOp.sw]) # {}) =>
    /\ lastOp.result \notin NotFoundResults
    /\ lastOp.spawn # NoProc =>
         /\ lastOp.spawn.at \in VersionDirs(tree[lastOp.sw])
         /\ lastOp.spawn.exe = lastOp.sw \o (IF lastOp.op = "run" THEN "-qt" ELSE "-cli")

ErrorShown(op) == \E i \in 1..Len(op.shown) : op.shown[i].tag = "error"

\* C29: an install whose extraction succeeds into a tree with no bin directory
\* holding the GUI ends Ready with the success message and the buttons of the
\* software enabled (or about to be); every run and status check of a
\* software with such a tree shows an error line and starts no process
C29_NoGuiThenErrors ==
  /\ (Ended /\ lastOp.w.extracted /\ tree[lastOp.sw] = "nogui") =>
        /\ lastOp.result = "Ready"
        /\ HasMsg(lastOp.w.sent, "success", lastOp.sw, "success")
        /\ buttons[lastOp.sw] = "normal" \/ Scheduled(after_queue, lastOp.sw)
  /\ (lastOp.op \in {"run", "status"} /\ tree[lastOp.sw] = "nogui") =>
        /\ ErrorShown(lastOp)
        /\ lastOp.spawn = NoProc

\* the addresses of the dialog that are no address of the coin
Malformed(s) ==
  IF s = "bitcoin" THEN {<<>>, NotAnAddress, Misspelt} ELSE {<<>>, NotAnAddress}

\* C30: a miner is started only with a well-formed address and a worker name
\* that is not empty; an invocation that is rejected shows an error line,
\* starts nothing and changes nothing, for the bitcoin and for the whive miner
C30_BadInputRejected ==
  [][lastOp'.op = "mine" =>
        /\ lastOp'.spawn # NoProc =>
             /\ lastOp'.spawn.address \notin Malformed(lastOp'.sw)
             /\ lastOp'.spawn.worker # ""
        /\ lastOp'.result = "rejected" =>
             /\ ErrorShown(lastOp') /\ lastOp'.spawn = NoProc
             /\ UNCHANGED <<buttons, dir, tmp, tree, conf, workers, message_queue,
                            progress, cancel_flag>>]_vars

\* C31: a step of an install thread writes no line to the output and changes
\* neither the progress bar nor a button: it only puts messages on the queue
C31_WorkerLeavesWidgetsAlone ==
  [][lastOp'.op = "thread" =>
        /\ lastOp'.shown = <<>>
        /\ progress' = progress
        /\ cancel_button' = cancel_button
        /\ buttons' = buttons]_vars

\* C32: a pass of process_queue writes to the output every message that is on
\* the queue, each once and in the order in which the threads put them
C32_DrainShowsTheQueue ==
  [][lastOp'.op = "process_queue" => lastOp'.shown = message_queue]_vars

\* C33: a pass of process_queue takes only the messages that are on the queue
\* and returns: the main thread never waits in get()
C33_DrainNeverBlocks == main_pc # "blocked"

\* C34: no handler of the main thread (install, process_queue, run, status)
\* downloads anything itself: none of them returns having fetched the disk
\* image of the Whive GUI
C34_NoDownloadOnMainThread ==
  lastOp.op \in {"install", "process_queue", "run", "status"} => lastOp.result # "dmg"

\* C35: once the callbacks scheduled by the threads have run, the Cancel
\* button is enabled exactly when some install thread is alive
C35_CancelEnabledIffInFlight ==
  after_queue = <<>> => (cancel_button = "normal" <=> \E r \in Runs : Live(r))

\* C36: nothing disables the buttons of a software, so they are disabled as
\* long as no install of it has succeeded; an invocation of an install
\* handler (a declined update after a run that ended Failed or Cancelled)
\* leaves such buttons disabled
C36_EnabledOnlyBySuccess ==
  [][\A s \in SW :
       (lastOp'.op = "install" /\ buttons[s] = "disabled" /\ ~Scheduled(after_queue, s))
          => buttons'[s] = "disabled"]_vars

InstallingPcs == DownloadingPcs \cup ExtractingPcs

\* C37: no run or status handler of a software is invoked while a thread
\* installing that software is downloading or extracting
C37_NoRunWhileInstalling ==
  lastOp.op \in {"run", "status"} =>
     \A r \in Runs : ~(workers[r].sw = lastOp.sw /\ workers[r].pc \in InstallingPcs)

\* the positions in q of the messages that tell how a run has ended
Terminals(q) == {i \in 1..Len(q) : q[i].kind \in {"success", "failed", "cancelled"}}

\* C38: a thread that has ended has put exactly one message that tells the
\* outcome of its run: the success, the failure or the cancellation
C38_OneTerminalMessage ==
  Ended => Cardinality(Terminals(lastOp.w.sent)) = 1

\* C39: the bitcoin.conf of the mainnet data directory never holds a prune
\* line, whichever step has written it; a pruned file that exists holds
\* prune=550
C39_MainnetConfHasNoPrune ==
  /\ ~HasKey(conf["mainnet"], "prune")
  /\ conf["pruned"] # Absent => HasLine(conf["pruned"], "prune", 550)

\* C40: every invocation of an install handler leaves cancel_flag cleared, the
\* invocations that start a thread included, and a thread takes the cancelled
\* branch at its check only if Cancel was pressed after its own invocation: a
\* flag that was set before does not cancel the run
C40_StaleCancelIsCleared ==
  [][/\ lastOp'.op = "install" => ~cancel_flag'
     /\ \A r \in Runs :
          (workers[r].pc = "downloading" /\ workers'[r].pc = "cancelling")
             => workers[r].cancel_pending]_vars

C40_Witness ==
  /\ lastOp.op = "install" /\ lastOp.w.stale_flag
  /\ StartedWith(Spawned.prune) /\ ~Spawned.cancel_pending
  /\ ~cancel_flag

====
